---- MODULE Spec2Model ----
(***************************************************************************)
(* Model of the two programs of the repository.                            *)
(*                                                                         *)
(* detectarActividadSospechosa (Algoritmo 2: deteccion de actividad        *)
(* sospechosa en logs de acceso a una API) is a pure function of           *)
(* (logs, config).  The initial state draws the batch and the policy from  *)
(* bounded families; the actions apply the function step by step in the    *)
(* order of the source: one ProcesarLog per record of the batch (PASO 3),  *)
(* then PASO 4 .. PASO 8, then the return of the report (PASO 9).          *)
(*                                                                         *)
(* LRUCache (src/LRF.js) is an object: the initial state is the cache      *)
(* after its constructor, and get and put are the actions.  Its nodes      *)
(* live in a heap addressed by reference.                                  *)
(*                                                                         *)
(* JavaScript Maps and plain objects iterate in insertion order; those of  *)
(* the detector are modelled as sequences of entries [clave, valor] in     *)
(* insertion order.  The samples are integers; every comparison of a       *)
(* quotient is made exactly, by cross-multiplication, with the IEEE-754    *)
(* outcomes of a division by zero spelled out, and with the doubles of the *)
(* source computed bit for bit where the two sides of the comparison of    *)
(* PASO 8 are equal in exact arithmetic.  The enumerated policies have a   *)
(* time_window of half a minute or one minute, so that                     *)
(* time_window / 60000 and the rate are exact doubles and the exact        *)
(* comparison is the code's; the policies of the source's tests have a     *)
(* window of one or five minutes and rates far from the limit.  String     *)
(* literals are kept in ASCII, without the accents of the source's.        *)
(***************************************************************************)
EXTENDS Integers, Sequences, FiniteSets

(* ---------------------------------------------------------------------- *)
(* Bounds of the batches                                                   *)
(* ---------------------------------------------------------------------- *)

\* Longest batch of the families that enumerate every record sequence.
MaxLogs == 3

\* Longest free tail appended to a structured prefix.
MaxCola == 2

(* ---------------------------------------------------------------------- *)
(* Program constants                                                       *)
(* ---------------------------------------------------------------------- *)

\* config.time_window / 60000: milliseconds per minute.
MsPorMinuto == 60000

\* const umbral_ips = 10
umbral_ips == 10

\* if (user_agents.length > 5)
umbral_user_agents == 5

(* ---------------------------------------------------------------------- *)
(* Generic helpers                                                         *)
(* ---------------------------------------------------------------------- *)

Range(s) == {s[n] : n \in 1..Len(s)}

MinOf(S) == CHOOSE x \in S : \A y \in S : x <= y

MaxOf(S) == CHOOSE x \in S : \A y \in S : x >= y

RECURSIVE SeqsUpTo(_, _)
\* Every sequence over S of length at most n.
SeqsUpTo(S, n) ==
    IF n = 0 THEN {<<>>}
    ELSE LET shorter == SeqsUpTo(S, n - 1)
         IN  shorter \cup {Append(s, x) : s \in {t \in shorter : Len(t) = n - 1}, x \in S}

RECURSIVE SumSeq(_)
\* array.reduce((a, b) => a + b, 0)
SumSeq(s) == IF s = <<>> THEN 0 ELSE Head(s) + SumSeq(Tail(s))

RECURSIVE SumSquares(_)
SumSquares(s) == IF s = <<>> THEN 0 ELSE Head(s) * Head(s) + SumSquares(Tail(s))

RECURSIVE ISqrt(_)
\* Floor of the square root of a natural number.
ISqrt(n) ==
    IF n < 2 THEN n
    ELSE LET s == 2 * ISqrt(n \div 4)
         IN  IF (s + 1) * (s + 1) <= n THEN s + 1 ELSE s

(* ---------------------------------------------------------------------- *)
(* Map: insertion-ordered association                                      *)
(* ---------------------------------------------------------------------- *)

MapHas(m, k) == \E n \in 1..Len(m) : m[n].clave = k

MapIdx(m, k) == CHOOSE n \in 1..Len(m) : m[n].clave = k

MapGet(m, k) == m[MapIdx(m, k)].valor

MapSet(m, k, v) ==
    IF MapHas(m, k)
    THEN [m EXCEPT ![MapIdx(m, k)] = [clave |-> k, valor |-> v]]
    ELSE Append(m, [clave |-> k, valor |-> v])

MapKeys(m) == [n \in 1..Len(m) |-> m[n].clave]

MapValues(m) == [n \in 1..Len(m) |-> m[n].valor]

\* Array.prototype.includes
Includes(arr, x) == \E n \in 1..Len(arr) : arr[n] = x

(* ---------------------------------------------------------------------- *)
(* State                                                                   *)
(* ---------------------------------------------------------------------- *)

VARIABLES
    logs,                       \* the batch (argument)
    config,                     \* the policy (argument)
    pc,                         \* position in the function body
    idx,                        \* index of the next record of logs.forEach
    requestsPorIP,
    fallosLoginPorIP,
    accesosEndpointSensible,
    userAgentsPorIP,
    tiemposRespuestaPorIP,
    ips_sospechosas,
    ataques_fuerza_bruta,
    endpoints_bajo_ataque,
    anomalias_detectadas,
    total_eventos_sospechosos,
    resultado                   \* <<>> before the return, <<report>> after it

\* The fields of an LRUCache (src/LRF.js) and what its caller has seen.
VARIABLES
    capacity,                   \* this.capacity
    cache,                      \* this.cache: the entries key -> reference to a Node
    nodos,                      \* the heap of Node objects, by reference
    retorno,                    \* <<>> for no value, <<v>> for the value returned last
    ordenUso,                   \* history: the keys held, by their last successful get or put
    vigente,                    \* history: <<key, value of its last put>>, not evicted since
    insertadas,                 \* history: the keys put, while every call was a put of a new key
    soloInserciones             \* history: every call so far was a put of a new key

detectorVars ==
    <<logs, config, pc, idx, requestsPorIP, fallosLoginPorIP,
      accesosEndpointSensible, userAgentsPorIP, tiemposRespuestaPorIP,
      ips_sospechosas, ataques_fuerza_bruta, endpoints_bajo_ataque,
      anomalias_detectadas, total_eventos_sospechosos, resultado>>

lruVars ==
    <<capacity, cache, nodos, retorno, ordenUso, vigente, insertadas,
      soloInserciones>>

vars == <<detectorVars, lruVars>>

(* ---------------------------------------------------------------------- *)
(* LRUCache: the heap of nodes and the private methods                     *)
(* ---------------------------------------------------------------------- *)

\* Largest capacity a cache is built with.
MaxCapacidad == 3

\* The keys the callers use: one more than the largest capacity, so that
\* every cache can be overfilled.
NombresDeClave == <<"a", "b", "c", "d", "e", "f", "g", "h">>

Claves == {NombresDeClave[n] : n \in 1..(MaxCapacidad + 1)}

\* The values the callers store.
Valores == {1, 2}

\* A Node is addressed by its reference, a natural number.  The two
\* sentinels are the first two objects the constructor allocates.
head == 0

tail == 1

null == -1

\* new Node(key, value), as an object of the heap
Node(k, v) == [key |-> k, value |-> v, prev |-> null, next |-> null]

\* The reference of the Node allocated for the key k.  References are not
\* observable and the allocator may return any one not in use: the model
\* returns the one set aside for the key, which is free whenever no Node of
\* that key is alive, and the lowest free one past those otherwise.
NuevaReferencia(h, k) ==
    LET propia == tail + (CHOOSE n \in 1..Len(NombresDeClave) : NombresDeClave[n] = k)
        libres == {n \in (tail + Len(NombresDeClave) + 1)..
                         (tail + Len(NombresDeClave) + 1 + Cardinality(DOMAIN h)) :
                      n \notin DOMAIN h}
    IN  IF propia \notin DOMAIN h
        THEN propia
        ELSE CHOOSE n \in libres : \A m \in libres : n <= m

\* The heap h with one more object obj at reference n.
Alojar(h, n, obj) == [m \in DOMAIN h \cup {n} |-> IF m = n THEN obj ELSE h[m]]

RECURSIVE Alcanzables(_, _)
\* The references reachable from the set S through prev and next.
Alcanzables(h, S) ==
    LET T == (S \cup {h[n].prev : n \in S} \cup {h[n].next : n \in S}) \ {null}
    IN  IF T = S THEN S ELSE Alcanzables(h, T)

\* The heap after the collection of the objects that neither the Map nor
\* the list reaches any more.
Recolectar(h, m) ==
    LET vivos == Alcanzables(h, {head, tail} \cup {e.valor : e \in m})
    IN  [n \in vivos |-> h[n]]

\* this.cache is a Map the class never iterates: its insertion order is
\* not observable, and the Map is the set of its entries [clave, valor].

\* Map.prototype.has
CacheHas(m, k) == \E e \in m : e.clave = k

\* Map.prototype.get
CacheGet(m, k) == (CHOOSE e \in m : e.clave = k).valor

\* Map.prototype.set
CacheSet(m, k, v) == {e \in m : e.clave # k} \cup {[clave |-> k, valor |-> v]}

\* Map.prototype.delete
CacheDelete(m, k) == {e \in m : e.clave # k}

\* Map.prototype.size
CacheSize(m) == Cardinality(m)

\* _removeNode(node)
removeNode(h, node) ==
    LET prev == h[node].prev
        next == h[node].next
        h1 == [h EXCEPT ![prev].next = next]
    IN  [h1 EXCEPT ![next].prev = prev]

\* _addToEnd(node)
addToEnd(h, node) ==
    LET h1 == [h EXCEPT ![node].prev = h[tail].prev]
        h2 == [h1 EXCEPT ![node].next = tail]
        h3 == [h2 EXCEPT ![h2[tail].prev].next = node]
    IN  [h3 EXCEPT ![tail].prev = node]

\* A variant that leaves the node where it is.
moveToEnd_SinMover(h, node) == h

\* _moveToEnd(node)
moveToEnd(h, node) == addToEnd(removeNode(h, node), node)

RECURSIVE KeysDesde(_, _)
\* The loop of keys(): the keys from the node current up to the tail.
KeysDesde(h, current) ==
    IF current = tail
    THEN <<>>
    ELSE <<h[current].key>> \o KeysDesde(h, h[current].next)

\* keys(): least recently used first
keys == KeysDesde(nodos, nodos[head].next)

\* size()
size == CacheSize(cache)

\* The fields of the cache after new LRUCache(c); a capacity that is not
\* positive throws, and no cache exists.
constructor(c) ==
    /\ c > 0
    /\ capacity = c
    /\ cache = {}
    /\ nodos = [n \in {head, tail} |->
                   IF n = head
                   THEN [Node(0, 0) EXCEPT !.next = tail]
                   ELSE [Node(0, 0) EXCEPT !.prev = head]]

\* Nothing has been called on the cache yet.
SinLlamadas ==
    /\ retorno = <<>>
    /\ ordenUso = <<>>
    /\ vigente = {}
    /\ insertadas = <<>>
    /\ soloInserciones = TRUE

(* ---------------------------------------------------------------------- *)
(* Inputs: records, policies and the families of batches                   *)
(* ---------------------------------------------------------------------- *)

Log(ip, endpoint, timestamp, status, user_agent, response_time) ==
    [ip |-> ip, endpoint |-> endpoint, timestamp |-> timestamp, status |-> status,
     user_agent |-> user_agent, response_time |-> response_time]

Config(max_rpm, max_failed, window) ==
    [max_requests_per_minute |-> max_rpm,
     max_failed_logins |-> max_failed,
     suspicious_endpoints |-> <<"/api/login", "/api/admin">>,
     time_window |-> window]

DireccionesIP ==
    <<"10.0.0.1", "10.0.0.2", "10.0.0.3", "10.0.0.4", "10.0.0.5", "10.0.0.6",
      "10.0.0.7", "10.0.0.8", "10.0.0.9", "10.0.0.10", "10.0.0.11", "10.0.0.12",
      "10.0.0.13", "10.0.0.14", "10.0.0.15">>

Agentes ==
    <<"Mozilla/5.0", "curl/7.64.1", "python-requests/2.25.1", "Postman/9.0",
      "insomnia/2021.7.2", "wget/1.20.3", "java/1.8.0">>

\* Rate family: two IPs, timestamps on both sides of the window's edges,
\* arriving in any order.
RegistrosTasa ==
    {Log(ip, "/api/users", t, 200, Agentes[1], 100) :
        ip \in {DireccionesIP[1], DireccionesIP[2]}, t \in {0, 30001, 60000, 60001}}

ConfigsTasa ==
    {Config(m, 5, w) : m \in {1, 2, 3}, w \in {30000, 60000}}

\* Brute-force family: k failed logins of one IP (as in TEST 2), then a free
\* tail of failed and successful requests to sensitive and ordinary
\* endpoints, with timestamps arriving in any order.  The rate limit is low
\* enough for rate findings to occur beside the brute-force ones.
PrefijoFuerzaBruta(k) ==
    [n \in 1..k |-> Log(DireccionesIP[2], "/api/login", 1500, 401, Agentes[1], 150)]

RegistrosFuerzaBruta ==
    {Log(ip, e, t, st, Agentes[1], 150) :
        ip \in {DireccionesIP[1], DireccionesIP[2]},
        e \in {"/api/login", "/api/users"},
        t \in {1000, 2000},
        st \in {200, 401, 403}}

ConfigsFuerzaBruta ==
    {Config(1, f, 60000) : f \in {0, 1}}

\* Mass-scan family: k distinct IPs reach one endpoint, sensitive or not (as
\* in TEST 3), with k around the threshold, then a free tail of repeated
\* and new IPs on sensitive and ordinary endpoints.
PrefijoEscaneo(k, e) ==
    [n \in 1..k |-> Log(DireccionesIP[n], e, 100 * n, 403, Agentes[1], 100)]

RegistrosEscaneo ==
    {Log(ip, e, 5000, 200, Agentes[1], 100) :
        ip \in {DireccionesIP[1], DireccionesIP[umbral_ips + 1], DireccionesIP[umbral_ips + 2]},
        e \in {"/api/admin", "/api/login", "/api/users"}}

\* User-agent family: one IP uses k distinct agents (as in TEST 4), with k
\* around the threshold, then a free tail of repeated and new agents with
\* regular and slow responses.
PrefijoAgentes(k) ==
    [n \in 1..k |-> Log(DireccionesIP[1], "/api/users", 1000 * n, 200, Agentes[n], 1)]

RegistrosAgentes ==
    {Log(ip, "/api/users", 9000, 200, ua, rt) :
        ip \in {DireccionesIP[1], DireccionesIP[2]},
        ua \in {Agentes[1], Agentes[umbral_user_agents + 1], Agentes[umbral_user_agents + 2]},
        rt \in {1, 20}}

\* Response-time family: negative, zero and positive samples (a few
\* milliseconds, so that the scaled dispersion stays within TLC's integers).
RegistrosTiempos ==
    {Log(ip, "/api/users", 1000, 200, Agentes[1], rt) :
        ip \in {DireccionesIP[1], DireccionesIP[2]}, rt \in {-1, 0, 1, 10}}

ConfigNormal == Config(60, 5, 60000)

\* The batches and policies of the source's tests, with Date.now() taken as 0.
\* TEST 1: one IP, 15 requests 4 seconds apart.
logs1 == [n \in 1..15 |-> Log(DireccionesIP[1], "/api/users", (n - 1) * 4000, 200, Agentes[1], 100)]

config1 == Config(60, 5, 60000)

\* TEST 2: one IP, 10 failed logins one second apart.
logs2 == [n \in 1..10 |-> Log(DireccionesIP[2], "/api/login", (n - 1) * 1000, 401, Agentes[1], 150)]

config2 == Config(60, 5, 300000)

\* TEST 3: 15 IPs denied at /api/admin.
logs3 == [n \in 1..15 |-> Log(DireccionesIP[n], "/api/admin", (n - 1) * 100, 403, Agentes[1], 100)]

config3 == Config(100, 5, 300000)

\* TEST 4: one IP with 7 user agents.
logs4 == [n \in 1..7 |-> Log(DireccionesIP[3], "/api/users", (n - 1) * 1000, 200, Agentes[n], 100)]

config4 == Config(60, 5, 300000)

LotesTasa == SeqsUpTo(RegistrosTasa, MaxLogs)

LotesFuerzaBruta ==
    {PrefijoFuerzaBruta(k) \o cola :
        k \in 0..1, cola \in SeqsUpTo(RegistrosFuerzaBruta, MaxCola)}

LotesEscaneo ==
    {PrefijoEscaneo(k, e) \o cola :
        e \in {"/api/admin", "/api/users"},
        k \in {0} \cup (umbral_ips - 1)..(umbral_ips + 1),
        cola \in SeqsUpTo(RegistrosEscaneo, MaxCola)}

LotesAgentes ==
    {PrefijoAgentes(k) \o cola :
        k \in {0} \cup (umbral_user_agents - 1)..(umbral_user_agents + 1),
        cola \in SeqsUpTo(RegistrosAgentes, MaxCola)}

LotesTiempos == SeqsUpTo(RegistrosTiempos, MaxLogs)

\* The state after PASO 1 and PASO 2: empty findings, empty maps.
Llamada(lote, cfg) ==
    /\ logs = lote
    /\ config = cfg
    /\ pc = IF lote = <<>> THEN "paso4" ELSE "paso3"
    /\ idx = 1
    /\ requestsPorIP = <<>>
    /\ fallosLoginPorIP = <<>>
    /\ accesosEndpointSensible = <<>>
    /\ userAgentsPorIP = <<>>
    /\ tiemposRespuestaPorIP = <<>>
    /\ ips_sospechosas = <<>>
    /\ ataques_fuerza_bruta = <<>>
    /\ endpoints_bajo_ataque = <<>>
    /\ anomalias_detectadas = <<>>
    /\ total_eventos_sospechosos = 0
    /\ resultado = <<>>

\* A call of the detector.  The detector has no cache: the one of the
\* state stays as built, with no call made on it.
Inicio(lote, cfg) ==
    /\ Llamada(lote, cfg)
    /\ constructor(1)
    /\ SinLlamadas

InitTasa ==
    \/ \E lote \in LotesTasa, cfg \in ConfigsTasa : Inicio(lote, cfg)
    \/ Inicio(logs1, config1)

InitFuerzaBruta ==
    \/ \E lote \in LotesFuerzaBruta, cfg \in ConfigsFuerzaBruta : Inicio(lote, cfg)
    \/ Inicio(logs2, config2)

InitEscaneo ==
    \/ \E lote \in LotesEscaneo : Inicio(lote, ConfigNormal)
    \/ Inicio(logs3, config3)

InitAgentes ==
    \/ \E lote \in LotesAgentes : Inicio(lote, ConfigNormal)
    \/ Inicio(logs4, config4)

InitTiempos == \E lote \in LotesTiempos : Inicio(lote, ConfigNormal)

\* Policies whose time_window is not positive.
ConfigsVentanaNoPositiva ==
    {Config(m, 5, w) : m \in {1, 60}, w \in {-60000, 0}}

InitVentanaNoPositiva ==
    \E lote \in LotesTasa, cfg \in ConfigsVentanaNoPositiva : Inicio(lote, cfg)

\* Reordering family: every short sequence of records of two IPs that mix
\* failed logins, timestamps half a window apart and two response times,
\* under a policy with low limits; and one batch of nine requests of one IP
\* whose response times have a standard deviation of exactly 1.5 times their
\* mean (mean 4/3, deviation 2).
RegistrosPermutacion ==
    {Log(DireccionesIP[1], e, t, IF e = "/api/login" THEN 401 ELSE 200, Agentes[1], 1) :
        e \in {"/api/login", "/api/users"}, t \in {0, 40000}}
    \cup {Log(DireccionesIP[2], "/api/login", 0, 401, Agentes[1], 1),
          Log(DireccionesIP[2], "/api/users", 40000, 200, Agentes[1], 20)}

ConfigPermutacion == Config(2, 1, 30000)

TiemposLimite == <<1, 1, 5, 5, 0, 0, 0, 0, 0>>

LoteLimite ==
    [n \in 1..Len(TiemposLimite) |->
        Log(DireccionesIP[1], "/api/users", 1000 * n, 200, Agentes[1], TiemposLimite[n])]

InitPermutacion ==
    \/ \E lote \in SeqsUpTo(RegistrosPermutacion, MaxLogs) : Inicio(lote, ConfigPermutacion)
    \/ Inicio(LoteLimite, ConfigNormal)

\* Every family under a policy within the contract (time_window > 0).
Init == InitTasa \/ InitFuerzaBruta \/ InitEscaneo \/ InitAgentes \/ InitTiempos

(* ---------------------------------------------------------------------- *)
(* PASO 3: one iteration of logs.forEach                                   *)
(* ---------------------------------------------------------------------- *)

\* ANALISIS 1: requestsPorIP
ContarRequest(m, log) ==
    LET base == IF MapHas(m, log.ip) THEN m
                ELSE MapSet(m, log.ip, [timestamps |-> <<>>, count |-> 0])
        e == MapGet(base, log.ip)
    IN  MapSet(base, log.ip,
               [timestamps |-> Append(e.timestamps, log.timestamp), count |-> e.count + 1])

\* The condition of ANALISIS 2 with status 403 forgotten.
EsFalloLogin_Solo401(cfg, log) ==
    Includes(cfg.suspicious_endpoints, log.endpoint) /\ log.status = 401

\* The condition of ANALISIS 2.
EsFalloLogin(cfg, log) ==
    Includes(cfg.suspicious_endpoints, log.endpoint) /\ (log.status = 401 \/ log.status = 403)

\* ANALISIS 2: fallosLoginPorIP
ContarFalloLogin(m, cfg, log) ==
    IF EsFalloLogin(cfg, log)
    THEN LET base == IF MapHas(m, log.ip) THEN m
                     ELSE MapSet(m, log.ip, [count |-> 0, timestamps |-> <<>>])
             e == MapGet(base, log.ip)
         IN  MapSet(base, log.ip,
                    [count |-> e.count + 1, timestamps |-> Append(e.timestamps, log.timestamp)])
    ELSE m

\* ANALISIS 3: accesosEndpointSensible
ContarAccesoSensible(m, cfg, log) ==
    IF Includes(cfg.suspicious_endpoints, log.endpoint)
    THEN LET base == IF MapHas(m, log.endpoint) THEN m
                     ELSE MapSet(m, log.endpoint, [count |-> 0, ips |-> <<>>])
             e == MapGet(base, log.endpoint)
         IN  MapSet(base, log.endpoint,
                    [count |-> e.count + 1, ips |-> Append(e.ips, log.ip)])
    ELSE m

\* ANALISIS 4 with the count set to 1 instead of incremented.
ContarUserAgent_SinIncrementar(m, log) ==
    LET base == IF MapHas(m, log.ip) THEN m ELSE MapSet(m, log.ip, <<>>)
    IN  MapSet(base, log.ip, MapSet(MapGet(base, log.ip), log.user_agent, 1))

\* ANALISIS 4: userAgentsPorIP; each value is the object ua_map, an
\* insertion-ordered association from user agent to count.  A count is
\* never left at 0, so !ua_map[user_agent] is the key's absence.
ContarUserAgent(m, log) ==
    LET base == IF MapHas(m, log.ip) THEN m ELSE MapSet(m, log.ip, <<>>)
        ua_map == MapGet(base, log.ip)
        con_clave == IF MapHas(ua_map, log.user_agent) THEN ua_map
                     ELSE MapSet(ua_map, log.user_agent, 0)
    IN  MapSet(base, log.ip,
               MapSet(con_clave, log.user_agent, MapGet(con_clave, log.user_agent) + 1))

\* ANALISIS 5 with the has() test never finding the IP: every record opens
\* an entry of its own.
GuardarTiempo_EntradaNueva(m, log) ==
    Append(m, [clave |-> log.ip, valor |-> <<log.response_time>>])

\* ANALISIS 5: tiemposRespuestaPorIP
GuardarTiempo(m, log) ==
    LET base == IF MapHas(m, log.ip) THEN m ELSE MapSet(m, log.ip, <<>>)
    IN  MapSet(base, log.ip, Append(MapGet(base, log.ip), log.response_time))

ProcesarLog ==
    /\ pc = "paso3"
    /\ idx <= Len(logs)
    /\ LET log == logs[idx]
       IN  /\ requestsPorIP' = ContarRequest(requestsPorIP, log)
           /\ fallosLoginPorIP' = ContarFalloLogin(fallosLoginPorIP, config, log)
           /\ accesosEndpointSensible' = ContarAccesoSensible(accesosEndpointSensible, config, log)
           /\ userAgentsPorIP' = ContarUserAgent(userAgentsPorIP, log)
           /\ tiemposRespuestaPorIP' = GuardarTiempo(tiemposRespuestaPorIP, log)
    /\ idx' = idx + 1
    /\ pc' = IF idx = Len(logs) THEN "paso4" ELSE "paso3"
    /\ UNCHANGED <<logs, config, ips_sospechosas, ataques_fuerza_bruta,
                   endpoints_bajo_ataque, anomalias_detectadas,
                   total_eventos_sospechosos, resultado>>
    /\ UNCHANGED lruVars

(* ---------------------------------------------------------------------- *)
(* Number formatting                                                       *)
(* ---------------------------------------------------------------------- *)

Abs(x) == IF x < 0 THEN -x ELSE x

\* (num / den).toFixed(2): the quotient in hundredths, rounded half away
\* from zero; a division by zero gives "Infinity" or "NaN".
ToFixed2(num, den) ==
    IF den = 0
    THEN [texto |-> IF num = 0 THEN "NaN" ELSE "Infinity", centesimas |-> 0]
    ELSE [texto |-> "decimal",
          centesimas |-> (IF (num < 0) = (den < 0) \/ num = 0 THEN 1 ELSE -1)
                         * ((200 * Abs(num) + Abs(den)) \div (2 * Abs(den)))]

\* new Date(ms).toISOString(): the calendar day (counted from the epoch) and
\* the time of day, "<dia>T<hora>:<minuto>:<segundo>.<milisegundo>Z".
ToISOString(ms) ==
    LET del_dia == ms % 86400000
    IN  [dia |-> ms \div 86400000,
         hora |-> del_dia \div 3600000,
         minuto |-> (del_dia % 3600000) \div 60000,
         segundo |-> (del_dia % 60000) \div 1000,
         milisegundo |-> del_dia % 1000]

(* ---------------------------------------------------------------------- *)
(* PASO 4: requests per minute                                             *)
(* ---------------------------------------------------------------------- *)

RECURSIVE InsertSorted(_, _)
InsertSorted(x, s) ==
    IF s = <<>> THEN <<x>>
    ELSE IF x < Head(s) THEN <<x>> \o s
    ELSE <<Head(s)>> \o InsertSorted(x, Tail(s))

\* The sort left out: the timestamps stay in arrival order.
SortAsc_SinOrdenar(s) == s

RECURSIVE SortAsc(_)
\* timestamps.sort((a, b) => a - b), a stable ascending sort
SortAsc(s) ==
    IF s = <<>> THEN <<>>
    ELSE InsertSorted(s[Len(s)], SortAsc(SubSeq(s, 1, Len(s) - 1)))

RECURSIVE RequestsInWindow(_, _, _)
\* The inner loop from index j: counts while timestamps[j] <= window_end,
\* and stops at the first timestamp past it.
RequestsInWindow(timestamps, j, window_end) ==
    IF j > Len(timestamps) THEN 0
    ELSE IF timestamps[j] <= window_end
         THEN 1 + RequestsInWindow(timestamps, j + 1, window_end)
         ELSE 0

\* The comparison with >= in place of > (positive time_window).
ExcedeLimite_MayorOIgual(requests_in_window, cfg) ==
    requests_in_window * MsPorMinuto >= cfg.max_requests_per_minute * cfg.time_window

\* requests_in_window / (time_window / 60000) > max_requests_per_minute,
\* with the quotient's IEEE-754 value when time_window is 0 (Infinity, or NaN
\* for 0 / 0) or negative.
ExcedeLimite(requests_in_window, cfg) ==
    IF cfg.time_window > 0
    THEN requests_in_window * MsPorMinuto > cfg.max_requests_per_minute * cfg.time_window
    ELSE IF cfg.time_window = 0
    THEN requests_in_window > 0
    ELSE requests_in_window * MsPorMinuto < cfg.max_requests_per_minute * cfg.time_window

RECURSIVE PrimeraViolacion(_, _, _)
\* The outer loop from index i: the first window start whose rate exceeds
\* the limit, or 0 when the loop ends without one.
PrimeraViolacion(timestamps, i, cfg) ==
    IF i > Len(timestamps) THEN 0
    ELSE IF ExcedeLimite(RequestsInWindow(timestamps, i, timestamps[i] + cfg.time_window), cfg)
         THEN i
         ELSE PrimeraViolacion(timestamps, i + 1, cfg)

TieneIP(hallazgos, ip) == \E n \in 1..Len(hallazgos) : hallazgos[n].ip = ip

\* The body of requestsPorIP.forEach for one entry, on the accumulated
\* [hallazgos, total]; the entry's timestamps are already sorted.
RevisarTasa(acc, ip, timestamps, cfg) ==
    LET i == PrimeraViolacion(timestamps, 1, cfg)
    IN  IF i > 0 /\ ~TieneIP(acc.hallazgos, ip)
        THEN LET n == RequestsInWindow(timestamps, i, timestamps[i] + cfg.time_window)
             IN  [hallazgos |-> Append(acc.hallazgos,
                     [ip |-> ip,
                      razon |-> "Exceso de requests por minuto",
                      requests_detectados |-> ToFixed2(n * MsPorMinuto, cfg.time_window),
                      limite_permitido |-> cfg.max_requests_per_minute,
                      ventana_minutos |-> [num |-> cfg.time_window, den |-> MsPorMinuto]]),
                  total |-> acc.total + 1]
        ELSE acc

\* requestsPorIP after PASO 4: every entry's timestamps sorted in place.
OrdenarTimestamps(m) ==
    [n \in 1..Len(m) |->
        [clave |-> m[n].clave,
         valor |-> [timestamps |-> SortAsc(m[n].valor.timestamps), count |-> m[n].valor.count]]]

RECURSIVE DetectarTasa(_, _, _, _)
DetectarTasa(acc, m, n, cfg) ==
    IF n > Len(m) THEN acc
    ELSE DetectarTasa(RevisarTasa(acc, m[n].clave, m[n].valor.timestamps, cfg), m, n + 1, cfg)

Paso4 ==
    /\ pc = "paso4"
    /\ requestsPorIP' = OrdenarTimestamps(requestsPorIP)
    /\ LET r == DetectarTasa([hallazgos |-> ips_sospechosas, total |-> total_eventos_sospechosos],
                             OrdenarTimestamps(requestsPorIP), 1, config)
       IN  /\ ips_sospechosas' = r.hallazgos
           /\ total_eventos_sospechosos' = r.total
    /\ pc' = "paso5"
    /\ UNCHANGED <<logs, config, idx, fallosLoginPorIP, accesosEndpointSensible,
                   userAgentsPorIP, tiemposRespuestaPorIP, ataques_fuerza_bruta,
                   endpoints_bajo_ataque, anomalias_detectadas, resultado>>
    /\ UNCHANGED lruVars

(* ---------------------------------------------------------------------- *)
(* PASO 5: brute force                                                     *)
(* ---------------------------------------------------------------------- *)

\* The body of fallosLoginPorIP.forEach with total_eventos_sospechosos++
\* left out.
RevisarFuerzaBruta_SinContar(acc, ip, data, cfg) ==
    IF data.count > cfg.max_failed_logins
    THEN [hallazgos |-> Append(acc.hallazgos,
             [ip |-> ip,
              tipo_ataque |-> "Fuerza Bruta en Login",
              intentos_fallidos |-> data.count,
              limite_permitido |-> cfg.max_failed_logins,
              timestamps_intentos |-> data.timestamps,
              primera_tentativa |-> ToISOString(data.timestamps[1]),
              ultima_tentativa |-> ToISOString(data.timestamps[Len(data.timestamps)])]),
          total |-> acc.total]
    ELSE acc

\* The body of fallosLoginPorIP.forEach for one entry.
RevisarFuerzaBruta(acc, ip, data, cfg) ==
    IF data.count > cfg.max_failed_logins
    THEN [hallazgos |-> Append(acc.hallazgos,
             [ip |-> ip,
              tipo_ataque |-> "Fuerza Bruta en Login",
              intentos_fallidos |-> data.count,
              limite_permitido |-> cfg.max_failed_logins,
              timestamps_intentos |-> data.timestamps,
              primera_tentativa |-> ToISOString(data.timestamps[1]),
              ultima_tentativa |-> ToISOString(data.timestamps[Len(data.timestamps)])]),
          total |-> acc.total + 1]
    ELSE acc

RECURSIVE DetectarFuerzaBruta(_, _, _, _)
DetectarFuerzaBruta(acc, m, n, cfg) ==
    IF n > Len(m) THEN acc
    ELSE DetectarFuerzaBruta(RevisarFuerzaBruta(acc, m[n].clave, m[n].valor, cfg), m, n + 1, cfg)

Paso5 ==
    /\ pc = "paso5"
    /\ LET r == DetectarFuerzaBruta(
                    [hallazgos |-> ataques_fuerza_bruta, total |-> total_eventos_sospechosos],
                    fallosLoginPorIP, 1, config)
       IN  /\ ataques_fuerza_bruta' = r.hallazgos
           /\ total_eventos_sospechosos' = r.total
    /\ pc' = "paso6"
    /\ UNCHANGED <<logs, config, idx, requestsPorIP, fallosLoginPorIP,
                   accesosEndpointSensible, userAgentsPorIP, tiemposRespuestaPorIP,
                   ips_sospechosas, endpoints_bajo_ataque, anomalias_detectadas, resultado>>
    /\ UNCHANGED lruVars

(* ---------------------------------------------------------------------- *)
(* PASO 6: endpoints under attack                                          *)
(* ---------------------------------------------------------------------- *)

\* The length of the list in place of the size of the set.
UniqueIPs_SinDeduplicar(ips) == Len(ips)

\* new Set(ips).size
UniqueIPs(ips) == Cardinality(Range(ips))

\* The body of accesosEndpointSensible.forEach for one entry.
RevisarEndpoint(acc, endpoint, data) ==
    IF UniqueIPs(data.ips) > umbral_ips
    THEN [hallazgos |-> Append(acc.hallazgos,
             [endpoint |-> endpoint,
              total_accesos |-> data.count,
              ips_unicas |-> UniqueIPs(data.ips),
              descripcion |-> "Acceso masivo desde multiples IPs"]),
          total |-> acc.total + 1]
    ELSE acc

RECURSIVE DetectarEndpoints(_, _, _)
DetectarEndpoints(acc, m, n) ==
    IF n > Len(m) THEN acc
    ELSE DetectarEndpoints(RevisarEndpoint(acc, m[n].clave, m[n].valor), m, n + 1)

Paso6 ==
    /\ pc = "paso6"
    /\ LET r == DetectarEndpoints(
                    [hallazgos |-> endpoints_bajo_ataque, total |-> total_eventos_sospechosos],
                    accesosEndpointSensible, 1)
       IN  /\ endpoints_bajo_ataque' = r.hallazgos
           /\ total_eventos_sospechosos' = r.total
    /\ pc' = "paso7"
    /\ UNCHANGED <<logs, config, idx, requestsPorIP, fallosLoginPorIP,
                   accesosEndpointSensible, userAgentsPorIP, tiemposRespuestaPorIP,
                   ips_sospechosas, ataques_fuerza_bruta, anomalias_detectadas, resultado>>
    /\ UNCHANGED lruVars

(* ---------------------------------------------------------------------- *)
(* PASO 7: user-agent anomalies                                            *)
(* ---------------------------------------------------------------------- *)

\* frecuencias.indexOf(Math.max(...frecuencias)): the first index of the maximum
IndiceDelMaximo(frecuencias) ==
    MinOf({n \in 1..Len(frecuencias) : frecuencias[n] = MaxOf(Range(frecuencias))})

\* The body of userAgentsPorIP.forEach for one entry.
RevisarUserAgents(acc, ip, ua_map) ==
    LET user_agents == MapKeys(ua_map)
        frecuencias == MapValues(ua_map)
    IN  IF Len(user_agents) > umbral_user_agents
        THEN [hallazgos |-> Append(acc.hallazgos,
                 [ip |-> ip,
                  tipo_anomalia |-> "Multiples User-Agents",
                  cantidad_user_agents |-> Len(user_agents),
                  user_agent_mas_comun |-> user_agents[IndiceDelMaximo(frecuencias)],
                  total_requests_desde_ip |-> SumSeq(frecuencias),
                  detalle |-> "Comportamiento sospechoso: demasiados User-Agents diferentes"]),
              total |-> acc.total + 1]
        ELSE acc

RECURSIVE DetectarUserAgents(_, _, _)
DetectarUserAgents(acc, m, n) ==
    IF n > Len(m) THEN acc
    ELSE DetectarUserAgents(RevisarUserAgents(acc, m[n].clave, m[n].valor), m, n + 1)

Paso7 ==
    /\ pc = "paso7"
    /\ LET r == DetectarUserAgents(
                    [hallazgos |-> anomalias_detectadas, total |-> total_eventos_sospechosos],
                    userAgentsPorIP, 1)
       IN  /\ anomalias_detectadas' = r.hallazgos
           /\ total_eventos_sospechosos' = r.total
    /\ pc' = "paso8"
    /\ UNCHANGED <<logs, config, idx, requestsPorIP, fallosLoginPorIP,
                   accesosEndpointSensible, userAgentsPorIP, tiemposRespuestaPorIP,
                   ips_sospechosas, ataques_fuerza_bruta, endpoints_bajo_ataque, resultado>>
    /\ UNCHANGED lruVars

(* ---------------------------------------------------------------------- *)
(* IEEE-754 double arithmetic                                              *)
(* ---------------------------------------------------------------------- *)

\* JavaScript numbers are IEEE-754 doubles: 53 significant bits, every
\* operation rounded to nearest, ties to even.  A natural number of any size
\* is the sequence of its digits in base 2^15, lowest first, without high
\* zeros; a double is [neg, m, e] with the value m * 2^e, m of exactly 53
\* bits, or m = <<>> for zero.  Overflow, subnormals, NaN and the sign of
\* zero do not occur with the response times of the batches and are not
\* modelled.

\* Bits of a digit, and the base.
BigBits == 15

BigBase == 32768

Pow2(n) == 2 ^ n

RECURSIVE BigOfInt(_)
\* the digits of the natural number n
BigOfInt(n) == IF n = 0 THEN <<>> ELSE <<n % BigBase>> \o BigOfInt(n \div BigBase)

\* a without its high zeros
BigTrim(a) ==
    LET usados == {i \in 1..Len(a) : a[i] # 0}
    IN  IF usados = {} THEN <<>> ELSE SubSeq(a, 1, MaxOf(usados))

BigDigit(a, i) == IF i >= 1 /\ i <= Len(a) THEN a[i] ELSE 0

\* a + b.  The carry into the digit i comes from a lower digit j whose sum
\* overflows, through digits that pass a carry on.
BigAdd(a, b) ==
    IF a = <<>> THEN b
    ELSE IF b = <<>> THEN a
    ELSE
    LET n == (IF Len(a) > Len(b) THEN Len(a) ELSE Len(b)) + 1
        suma == [i \in 1..n |-> BigDigit(a, i) + BigDigit(b, i)]
        carry == [i \in 1..n |->
                    IF \E j \in 1..(i - 1) :
                          /\ suma[j] >= BigBase
                          /\ \A k \in (j + 1)..(i - 1) : suma[k] >= BigBase - 1
                    THEN 1 ELSE 0]
    IN  BigTrim([i \in 1..n |-> (suma[i] + carry[i]) % BigBase])

\* a - b, for a >= b.  The borrow from the digit i comes from a lower digit
\* j that is too small, through digits that pass a borrow on.
BigSub(a, b) ==
    IF b = <<>> THEN a
    ELSE
    LET resta == [i \in 1..Len(a) |-> a[i] - BigDigit(b, i)]
        borrow == [i \in 1..Len(a) |->
                     IF \E j \in 1..(i - 1) :
                           /\ resta[j] < 0
                           /\ \A k \in (j + 1)..(i - 1) : resta[k] <= 0
                     THEN 1 ELSE 0]
    IN  BigTrim([i \in 1..Len(a) |-> (resta[i] - borrow[i]) % BigBase])

\* a <= b
BigLeq(a, b) ==
    IF Len(a) # Len(b) THEN Len(a) < Len(b)
    ELSE \/ \A i \in 1..Len(a) : a[i] = b[i]
         \/ \E i \in 1..Len(a) :
               /\ a[i] < b[i]
               /\ \A k \in (i + 1)..Len(a) : a[k] = b[k]

\* a * k, for a digit k: the low halves of the products of the digits, plus
\* their high halves one digit up
BigMulSmall(a, k) ==
    IF a = <<>> \/ k = 0 THEN <<>>
    ELSE
    BigAdd([i \in 1..Len(a) |-> (a[i] * k) % BigBase],
           <<0>> \o [i \in 1..Len(a) |-> (a[i] * k) \div BigBase])

RECURSIVE BigDivModSmallFrom(_, _, _, _, _)
\* Long division by k of the digits of a from the hi-th down to the lo-th,
\* with the remainder r of the digits above: the quotient digit and the
\* remainder after each digit, the higher half of the digits first.
BigDivModSmallFrom(a, k, hi, lo, r) ==
    IF hi = lo
    THEN <<[q |-> (r * BigBase + a[hi]) \div k, r |-> (r * BigBase + a[hi]) % k]>>
    ELSE LET mid == (hi + lo) \div 2
             alto == BigDivModSmallFrom(a, k, hi, mid + 1, r)
         IN  alto \o BigDivModSmallFrom(a, k, mid, lo, alto[Len(alto)].r)

\* quotient and remainder of a by k, for a digit k > 0
BigDivModSmall(a, k) ==
    IF a = <<>> THEN [q |-> <<>>, r |-> 0]
    ELSE LET pasos == BigDivModSmallFrom(a, k, Len(a), 1, 0)
         IN  [q |-> BigTrim([i \in 1..Len(a) |-> pasos[Len(a) + 1 - i].q]),
              r |-> pasos[Len(a)].r]

\* a * 2^n: each digit gives its low bits and takes the high bits of the
\* one before
BigShl(a, n) ==
    LET w == n \div BigBits
        s == n % BigBits
    IN  IF a = <<>> THEN <<>>
        ELSE BigTrim([i \in 1..(Len(a) + w + 1) |->
                        (BigDigit(a, i - w) % Pow2(BigBits - s)) * Pow2(s)
                        + BigDigit(a, i - w - 1) \div Pow2(BigBits - s)])

\* floor(a / 2^n): each digit gives its high bits and takes the low bits of
\* the next one
BigShr(a, n) ==
    LET w == n \div BigBits
        s == n % BigBits
    IN  IF w >= Len(a) THEN <<>>
        ELSE BigTrim([i \in 1..(Len(a) - w) |->
                        (a[i + w] \div Pow2(s))
                        + (BigDigit(a, i + w + 1) % Pow2(s)) * Pow2(BigBits - s)])

\* the number of bits of the integer n >= 0
BitLen(n) == Cardinality({j \in 0..30 : Pow2(j) <= n})

\* the number of bits of a
BigBitLen(a) == IF a = <<>> THEN 0 ELSE BigBits * (Len(a) - 1) + BitLen(a[Len(a)])

\* a is a multiple of 2^n
BigDivisibleByPow2(a, n) ==
    \A i \in 1..Len(a) :
        /\ i <= n \div BigBits => a[i] = 0
        /\ i = n \div BigBits + 1 => a[i] % Pow2(n % BigBits) = 0

\* a is odd
BigOdd(a) == a # <<>> /\ a[1] % 2 = 1

RECURSIVE BigMulFrom(_, _, _, _)
\* a times the digits lo..hi of b in their places: the lower half of the
\* digits plus the higher half
BigMulFrom(a, b, lo, hi) ==
    IF lo = hi THEN [i \in 1..(lo - 1) |-> 0] \o BigMulSmall(a, b[lo])
    ELSE BigAdd(BigMulFrom(a, b, lo, (lo + hi) \div 2),
                BigMulFrom(a, b, (lo + hi) \div 2 + 1, hi))

\* a * b
BigMul(a, b) ==
    IF a = <<>> \/ b = <<>> THEN <<>> ELSE BigTrim(BigMulFrom(a, b, 1, Len(b)))

\* One step of the square root bit by bit: the i-th pair of bits of a is
\* brought down to the remainder and the next bit of the root is decided.
BigSqrtStep(a, i, st) ==
    LET par == BigShr(a, 2 * (i - 1))
        rem2 == BigAdd(BigShl(st.rem, 2), BigOfInt(BigDigit(par, 1) % 4))
        trial == BigAdd(BigShl(st.root, 2), <<1>>)
    IN  IF BigLeq(trial, rem2)
        THEN [root |-> BigAdd(BigShl(st.root, 1), <<1>>), rem |-> BigSub(rem2, trial)]
        ELSE [root |-> BigShl(st.root, 1), rem |-> rem2]

RECURSIVE BigSqrtRemFrom(_, _, _, _)
\* Root and remainder after each of the steps for the pairs of bits hi down
\* to lo, from root and remainder st: the higher half of the pairs, then
\* the lower half.
BigSqrtRemFrom(a, hi, lo, st) ==
    IF hi = lo THEN <<BigSqrtStep(a, hi, st)>>
    ELSE LET mid == (hi + lo) \div 2
             alto == BigSqrtRemFrom(a, hi, mid + 1, st)
         IN  alto \o BigSqrtRemFrom(a, mid, lo, alto[Len(alto)])

\* floor of the square root of a, and a - root^2
BigSqrtRem(a) ==
    LET pares == (BigBitLen(a) + 1) \div 2
    IN  IF a = <<>> THEN [root |-> <<>>, rem |-> <<>>]
        ELSE BigSqrtRemFrom(a, pares, 1, [root |-> <<>>, rem |-> <<>>])[pares]

F64Zero == [neg |-> FALSE, m |-> <<>>, e |-> 0]

\* The double nearest to (M + f) * 2^e, ties to even, where 0 < f < 1 when
\* sticky and f = 0 otherwise; with sticky, M has more than 53 bits.
F64Round(neg, M, e, sticky) ==
    LET L == BigBitLen(M)
        d == L - 53
    IN  IF M = <<>> THEN F64Zero
        ELSE IF d <= 0 THEN [neg |-> neg, m |-> BigShl(M, -d), e |-> e + d]
        ELSE LET q == BigShr(M, d)
                 half == BigOdd(BigShr(M, d - 1))
                 resto == sticky \/ ~BigDivisibleByPow2(M, d - 1)
                 up == half /\ (resto \/ BigOdd(q))
                 q2 == IF up THEN BigAdd(q, <<1>>) ELSE q
             IN  IF BigBitLen(q2) > 53
                 THEN [neg |-> neg, m |-> BigShr(q2, 1), e |-> e + d + 1]
                 ELSE [neg |-> neg, m |-> q2, e |-> e + d]

\* the double of an integer
F64OfInt(n) ==
    IF n < 0 THEN F64Round(TRUE, BigOfInt(-n), 0, FALSE)
    ELSE F64Round(FALSE, BigOfInt(n), 0, FALSE)

\* x + y
F64Add(x, y) ==
    IF x.m = <<>> THEN y
    ELSE IF y.m = <<>> THEN x
    ELSE LET e0 == IF x.e < y.e THEN x.e ELSE y.e
             X == BigShl(x.m, x.e - e0)
             Y == BigShl(y.m, y.e - e0)
         IN  IF x.neg = y.neg THEN F64Round(x.neg, BigAdd(X, Y), e0, FALSE)
             ELSE IF X = Y THEN F64Zero
             ELSE IF BigLeq(Y, X) THEN F64Round(x.neg, BigSub(X, Y), e0, FALSE)
             ELSE F64Round(y.neg, BigSub(Y, X), e0, FALSE)

\* x - y
F64Sub(x, y) ==
    F64Add(x, IF y.m = <<>> THEN y ELSE [y EXCEPT !.neg = ~y.neg])

\* x * y
F64Mul(x, y) ==
    IF x.m = <<>> \/ y.m = <<>> THEN F64Zero
    ELSE F64Round(x.neg # y.neg, BigMul(x.m, y.m), x.e + y.e, FALSE)

\* x / n, for the double of an integer n with 0 < n < 2^15
F64DivInt(x, n) ==
    IF x.m = <<>> THEN F64Zero
    ELSE LET dm == BigDivModSmall(BigShl(x.m, 60), n)
         IN  F64Round(x.neg, dm.q, x.e - 60, dm.r # 0)

\* Math.sqrt(x), for x >= 0
F64Sqrt(x) ==
    IF x.m = <<>> THEN F64Zero
    ELSE LET s == IF x.e % 2 = 0 THEN 58 ELSE 59
             sr == BigSqrtRem(BigShl(x.m, s))
         IN  F64Round(FALSE, sr.root, (x.e - s) \div 2, sr.rem # <<>>)

\* x > y: y - x is negative
F64Gt(x, y) ==
    LET d == F64Sub(y, x)
    IN  d.m # <<>> /\ d.neg

RECURSIVE F64SumFrom(_, _, _, _)
\* The accumulator of tiempos.reduce((a, b) => a + b, 0) after each of the
\* elements lo..hi, from the accumulator a: the first half of the elements,
\* then the second half.
F64SumFrom(tiempos, lo, hi, a) ==
    IF lo = hi THEN <<F64Add(a, F64OfInt(tiempos[lo]))>>
    ELSE LET mid == (lo + hi) \div 2
             antes == F64SumFrom(tiempos, lo, mid, a)
         IN  antes \o F64SumFrom(tiempos, mid + 1, hi, antes[Len(antes)])

\* tiempos.reduce((a, b) => a + b, 0)
F64Sum(tiempos) ==
    IF tiempos = <<>> THEN F64Zero
    ELSE F64SumFrom(tiempos, 1, Len(tiempos), F64Zero)[Len(tiempos)]

RECURSIVE F64SumSquaresFrom(_, _, _, _, _)
\* The accumulator of tiempos.reduce((sum, t) => sum + Math.pow(t -
\* promedio, 2), 0) after each of the elements lo..hi, from the accumulator
\* sum; Math.pow(x, 2) is x * x.
F64SumSquaresFrom(tiempos, promedio, lo, hi, sum) ==
    IF lo = hi
    THEN LET dif == F64Sub(F64OfInt(tiempos[lo]), promedio)
         IN  <<F64Add(sum, F64Mul(dif, dif))>>
    ELSE LET mid == (lo + hi) \div 2
             antes == F64SumSquaresFrom(tiempos, promedio, lo, mid, sum)
         IN  antes \o F64SumSquaresFrom(tiempos, promedio, mid + 1, hi, antes[Len(antes)])

\* tiempos.reduce((sum, t) => sum + Math.pow(t - promedio, 2), 0)
F64SumSquares(tiempos, promedio) ==
    IF tiempos = <<>> THEN F64Zero
    ELSE F64SumSquaresFrom(tiempos, promedio, 1, Len(tiempos), F64Zero)[Len(tiempos)]

\* The constants of the body of tiemposRespuestaPorIP.forEach, in the order
\* of their declarations.
Estadisticas(tiempos) ==
    LET promedio == F64DivInt(F64Sum(tiempos), Len(tiempos))
        varianza == F64DivInt(F64SumSquares(tiempos, promedio), Len(tiempos))
        desv_estandar == F64Sqrt(varianza)
    IN  [promedio |-> promedio, varianza |-> varianza, desv_estandar |-> desv_estandar]

\* desv_estandar > promedio * 1.5, as the source computes it
DesviacionSobreUmbral(tiempos) ==
    LET factor == F64Round(FALSE, BigOfInt(3), -1, FALSE)
    IN  \E e \in {Estadisticas(tiempos)} :
            F64Gt(e.desv_estandar, F64Mul(e.promedio, factor))

(* ---------------------------------------------------------------------- *)
(* PASO 8: response-time anomalies                                         *)
(* ---------------------------------------------------------------------- *)

\* n * n * varianza for n samples: n * (sum of squares) - (sum) ^ 2
DispersionEscalada(tiempos) ==
    Len(tiempos) * SumSquares(tiempos) - SumSeq(tiempos) * SumSeq(tiempos)

\* desv_estandar > promedio * 1.5.  In exact arithmetic this is
\* sqrt(D) / n > 3 * S / (2 * n) with S the sum and D = n * n * varianza:
\* true when S < 0, else 4 * D > 9 * S * S.  The samples of the batches are
\* integers of a few digits, so whenever the two sides differ in exact
\* arithmetic they differ by far more than the rounding of the doubles, and
\* the exact comparison is the source's; when they are equal in exact
\* arithmetic the rounding decides, and the doubles are computed.
TiemposIrregulares(tiempos) ==
    LET S == SumSeq(tiempos)
        D == DispersionEscalada(tiempos)
    IN  IF S > 0 /\ 4 * D = 9 * S * S
        THEN DesviacionSobreUmbral(tiempos)
        ELSE S < 0 \/ 4 * D > 9 * S * S

\* desv_estandar.toFixed(2), in hundredths: 100 * sqrt(D) / n rounded half up
DesviacionToFixed2(tiempos) ==
    [texto |-> "decimal",
     centesimas |-> (ISqrt(40000 * DispersionEscalada(tiempos)) + Len(tiempos))
                    \div (2 * Len(tiempos))]

\* The body of tiemposRespuestaPorIP.forEach for one entry.
RevisarTiempos(acc, ip, tiempos) ==
    IF TiemposIrregulares(tiempos)
    THEN [hallazgos |-> Append(acc.hallazgos,
             [ip |-> ip,
              tipo_anomalia |-> "Tiempos de respuesta irregulares",
              tiempo_promedio_ms |-> ToFixed2(SumSeq(tiempos), Len(tiempos)),
              desviacion_estandar_ms |-> DesviacionToFixed2(tiempos),
              detalle |-> "Comportamiento inconsistente en tiempos de respuesta"]),
          total |-> acc.total + 1]
    ELSE acc

RECURSIVE DetectarTiempos(_, _, _)
DetectarTiempos(acc, m, n) ==
    IF n > Len(m) THEN acc
    ELSE DetectarTiempos(RevisarTiempos(acc, m[n].clave, m[n].valor), m, n + 1)

Paso8 ==
    /\ pc = "paso8"
    /\ LET r == DetectarTiempos(
                    [hallazgos |-> anomalias_detectadas, total |-> total_eventos_sospechosos],
                    tiemposRespuestaPorIP, 1)
       IN  /\ anomalias_detectadas' = r.hallazgos
           /\ total_eventos_sospechosos' = r.total
    /\ pc' = "paso9"
    /\ UNCHANGED <<logs, config, idx, requestsPorIP, fallosLoginPorIP,
                   accesosEndpointSensible, userAgentsPorIP, tiemposRespuestaPorIP,
                   ips_sospechosas, ataques_fuerza_bruta, endpoints_bajo_ataque, resultado>>
    /\ UNCHANGED lruVars

(* ---------------------------------------------------------------------- *)
(* PASO 9: the report                                                      *)
(* ---------------------------------------------------------------------- *)

Retornar ==
    /\ pc = "paso9"
    /\ resultado' = <<[ips_sospechosas |-> ips_sospechosas,
                       ataques_fuerza_bruta |-> ataques_fuerza_bruta,
                       endpoints_bajo_ataque |-> endpoints_bajo_ataque,
                       anomalias_detectadas |-> anomalias_detectadas,
                       total_eventos_sospechosos |-> total_eventos_sospechosos]>>
    /\ pc' = "fin"
    /\ UNCHANGED <<logs, config, idx, requestsPorIP, fallosLoginPorIP,
                   accesosEndpointSensible, userAgentsPorIP, tiemposRespuestaPorIP,
                   ips_sospechosas, ataques_fuerza_bruta, endpoints_bajo_ataque,
                   anomalias_detectadas, total_eventos_sospechosos>>
    /\ UNCHANGED lruVars

(* ---------------------------------------------------------------------- *)
(* The function as a whole                                                 *)
(* ---------------------------------------------------------------------- *)

\* The body of the loop of PASO 3 for one record, on the five Maps.
AgregarLog(mapas, cfg, log) ==
    [requestsPorIP |-> ContarRequest(mapas.requestsPorIP, log),
     fallosLoginPorIP |-> ContarFalloLogin(mapas.fallosLoginPorIP, cfg, log),
     accesosEndpointSensible |-> ContarAccesoSensible(mapas.accesosEndpointSensible, cfg, log),
     userAgentsPorIP |-> ContarUserAgent(mapas.userAgentsPorIP, log),
     tiemposRespuestaPorIP |-> GuardarTiempo(mapas.tiemposRespuestaPorIP, log)]

RECURSIVE AgregarFrom(_, _, _, _, _)
\* The five Maps after each of the records lo..hi of the batch, from the
\* Maps before them: the first half of the records, then the second half.
AgregarFrom(lote, lo, hi, cfg, mapas) ==
    IF lo = hi THEN <<AgregarLog(mapas, cfg, lote[lo])>>
    ELSE LET mid == (lo + hi) \div 2
             antes == AgregarFrom(lote, lo, mid, cfg, mapas)
         IN  antes \o AgregarFrom(lote, mid + 1, hi, cfg, antes[Len(antes)])

\* PASO 3 on the batch: the five Maps.
Agregar(lote, cfg) ==
    LET vacios == [requestsPorIP |-> <<>>, fallosLoginPorIP |-> <<>>,
                   accesosEndpointSensible |-> <<>>, userAgentsPorIP |-> <<>>,
                   tiemposRespuestaPorIP |-> <<>>]
    IN  IF lote = <<>> THEN vacios
        ELSE AgregarFrom(lote, 1, Len(lote), cfg, vacios)[Len(lote)]

\* detectarActividadSospechosa(lote, cfg): the report returned.
Detectar(lote, cfg) ==
    LET mapas == Agregar(lote, cfg)
        r4 == DetectarTasa([hallazgos |-> <<>>, total |-> 0],
                           OrdenarTimestamps(mapas.requestsPorIP), 1, cfg)
        r5 == DetectarFuerzaBruta([hallazgos |-> <<>>, total |-> r4.total],
                                  mapas.fallosLoginPorIP, 1, cfg)
        r6 == DetectarEndpoints([hallazgos |-> <<>>, total |-> r5.total],
                                mapas.accesosEndpointSensible, 1)
        r7 == DetectarUserAgents([hallazgos |-> <<>>, total |-> r6.total],
                                 mapas.userAgentsPorIP, 1)
        r8 == DetectarTiempos(r7, mapas.tiemposRespuestaPorIP, 1)
    IN  [ips_sospechosas |-> r4.hallazgos,
         ataques_fuerza_bruta |-> r5.hallazgos,
         endpoints_bajo_ataque |-> r6.hallazgos,
         anomalias_detectadas |-> r8.hallazgos,
         total_eventos_sospechosos |-> r8.total]

Next == ProcesarLog \/ Paso4 \/ Paso5 \/ Paso6 \/ Paso7 \/ Paso8 \/ Retornar

Spec == Init /\ [][Next]_vars

\* The detector on each family of batches alone.
SpecTasa == InitTasa /\ [][Next]_vars

SpecFuerzaBruta == InitFuerzaBruta /\ [][Next]_vars

SpecEscaneo == InitEscaneo /\ [][Next]_vars

SpecAgentes == InitAgentes /\ [][Next]_vars

SpecTiempos == InitTiempos /\ [][Next]_vars

\* The detector called with a policy outside its contract: a time_window
\* that is zero or negative.
SpecVentanaNoPositiva == InitVentanaNoPositiva /\ [][Next]_vars

\* The detector on the reordering family.
SpecPermutacion == InitPermutacion /\ [][Next]_vars

(* ---------------------------------------------------------------------- *)
(* LRUCache: get and put                                                   *)
(* ---------------------------------------------------------------------- *)

\* The order of last use after a successful get or put of the key k has
\* left the Map m: k is the last one, and the keys that left the Map are
\* forgotten.
Usar(orden, m, k) ==
    SelectSeq(orden, LAMBDA e : e # k /\ CacheHas(m, e)) \o <<k>>

\* The last puts still in force after put(k, v) left the Map m: the one
\* of k is v, and those of the keys that left the Map are gone.
Vigentes(vig, m, k, v) ==
    {par \in vig : par[1] # k /\ CacheHas(m, par[1])} \cup {<<k, v>>}

\* get(key)
get(k) ==
    /\ IF ~CacheHas(cache, k)
       THEN /\ retorno' = <<-1>>
            /\ UNCHANGED <<nodos, ordenUso>>
       ELSE LET node == CacheGet(cache, k)
                h == moveToEnd(nodos, node)
            IN  /\ nodos' = h
                /\ retorno' = <<h[node].value>>
                /\ ordenUso' = Usar(ordenUso, cache, k)
    /\ insertadas' = <<>>
    /\ soloInserciones' = FALSE
    /\ UNCHANGED <<capacity, cache, vigente>>
    /\ UNCHANGED detectorVars

\* A variant that refreshes the key and keeps its old value.
Actualizar_SinReemplazar(h, m, k, v) ==
    [nodos |-> moveToEnd(h, CacheGet(m, k)), cache |-> m]

\* The heap and the Map after the branch of put for a key already present.
Actualizar(h, m, k, v) ==
    LET node == CacheGet(m, k)
        h1 == [h EXCEPT ![node].value = v]
    IN  [nodos |-> moveToEnd(h1, node), cache |-> m]

\* A variant that never evicts.
Desalojar_SinDesalojar(h, m, cap) == [nodos |-> h, cache |-> m]

\* The heap and the Map after the eviction of put, when the Map is full.
Desalojar(h, m, cap) ==
    IF CacheSize(m) >= cap
    THEN LET lruNode == h[head].next
             h1 == removeNode(h, lruNode)
             m1 == CacheDelete(m, h1[lruNode].key)
         IN  [nodos |-> Recolectar(h1, m1), cache |-> m1]
    ELSE [nodos |-> h, cache |-> m]

\* The heap and the Map after the branch of put for a new key.
Insertar(h, m, cap, k, v) ==
    LET d == Desalojar(h, m, cap)
        newNode == NuevaReferencia(d.nodos, k)
        h1 == Alojar(d.nodos, newNode, Node(k, v))
        m1 == CacheSet(d.cache, k, newNode)
    IN  [nodos |-> addToEnd(h1, newNode), cache |-> m1]

\* put(key, value)
put(k, v) ==
    /\ LET r == IF CacheHas(cache, k)
                THEN Actualizar(nodos, cache, k, v)
                ELSE Insertar(nodos, cache, capacity, k, v)
       IN  /\ nodos' = r.nodos
           /\ cache' = r.cache
           /\ vigente' = Vigentes(vigente, r.cache, k, v)
           /\ ordenUso' = Usar(ordenUso, r.cache, k)
    /\ retorno' = <<>>
    /\ LET nueva == soloInserciones /\ ~Includes(insertadas, k)
       IN  /\ soloInserciones' = nueva
           /\ insertadas' = IF nueva THEN Append(insertadas, k) ELSE <<>>
    /\ UNCHANGED capacity
    /\ UNCHANGED detectorVars

\* A cache of any capacity up to the bound, just built; the detector is
\* not running.
InitLRU ==
    /\ \E c \in 1..MaxCapacidad : constructor(c)
    /\ SinLlamadas
    /\ Llamada(<<>>, ConfigNormal)

NextLRU ==
    \/ \E k \in Claves : get(k)
    \/ \E k \in Claves, v \in Valores : put(k, v)

\* The cache under any sequence of calls of get and put.
SpecLRU == InitLRU /\ [][NextLRU]_vars

(* ---------------------------------------------------------------------- *)
(* What the batch says, read from logs alone                               *)
(* ---------------------------------------------------------------------- *)

Informe == resultado[1]

Retornado == resultado # <<>>

TodasLasIPs == Range(DireccionesIP)

TodosLosEndpoints == {"/api/login", "/api/admin", "/api/users"}

\* The positions of the batch's records from ip.
IndicesDeIP(ip) == {n \in 1..Len(logs) : logs[n].ip = ip}

\* The positions of the findings of a collection that name ip.
HallazgosDeIP(hallazgos, ip) == {n \in 1..Len(hallazgos) : hallazgos[n].ip = ip}

\* The number of ip's records in the closed window [t, t + time_window].
EnVentana(ip, t) ==
    Cardinality({k \in IndicesDeIP(ip) :
        t <= logs[k].timestamp /\ logs[k].timestamp <= t + config.time_window})

\* Some record of ip starts a window whose count, divided by
\* time_window / 60000, is strictly greater than the limit (time_window > 0).
HayVentanaExcedida(ip) ==
    \E n \in IndicesDeIP(ip) :
        EnVentana(ip, logs[n].timestamp) * MsPorMinuto
            > config.max_requests_per_minute * config.time_window

\* The positions of ip's failed requests (401 or 403) to a sensitive endpoint.
FallosDeIP(ip) ==
    {n \in IndicesDeIP(ip) :
        /\ logs[n].endpoint \in Range(config.suspicious_endpoints)
        /\ logs[n].status \in {401, 403}}

(* ---------------------------------------------------------------------- *)
(* C1                                                                      *)
(* ---------------------------------------------------------------------- *)

\* C1: the counter total_eventos_sospechosos equals the sum of the lengths of
\* the four findings collections, at every step and in the returned report.
C1_TotalEsSumaDeLongitudes ==
    /\ total_eventos_sospechosos =
          Len(ips_sospechosas) + Len(ataques_fuerza_bruta)
          + Len(endpoints_bajo_ataque) + Len(anomalias_detectadas)
    /\ Retornado =>
          Informe.total_eventos_sospechosos =
              Len(Informe.ips_sospechosas) + Len(Informe.ataques_fuerza_bruta)
              + Len(Informe.endpoints_bajo_ataque) + Len(Informe.anomalias_detectadas)

\* A report with findings of two detectors.
C1_Witness ==
    /\ Retornado
    /\ Informe.ips_sospechosas # <<>>
    /\ Informe.ataques_fuerza_bruta # <<>>
    /\ Informe.total_eventos_sospechosos >= 3

(* ---------------------------------------------------------------------- *)
(* C2                                                                      *)
(* ---------------------------------------------------------------------- *)

SinHallazgoDeTasaConMenosDeDos ==
    \A ip \in TodasLasIPs :
        Cardinality(IndicesDeIP(ip)) < 2 => HallazgosDeIP(Informe.ips_sospechosas, ip) = {}

\* C2 as claimed: for every batch and every policy with a positive
\* time_window, an IP with fewer than 2 requests gets no rate-abuse finding.
C2_Original ==
    (Retornado /\ config.time_window > 0) => SinHallazgoDeTasaConMenosDeDos

\* C2 as amended: the same, for the policies under which one request per
\* window is within the limit, 60000 / time_window <= max_requests_per_minute.
C2_UnSoloRequestDentroDelLimite ==
    (/\ Retornado
     /\ config.time_window > 0
     /\ MsPorMinuto <= config.max_requests_per_minute * config.time_window)
    => SinHallazgoDeTasaConMenosDeDos

\* Under such a policy, one IP with a single request beside a flagged IP.
C2_Witness ==
    /\ Retornado
    /\ config.time_window > 0
    /\ MsPorMinuto <= config.max_requests_per_minute * config.time_window
    /\ \E ip \in TodasLasIPs : Cardinality(IndicesDeIP(ip)) = 1
    /\ Informe.ips_sospechosas # <<>>

(* ---------------------------------------------------------------------- *)
(* C3                                                                      *)
(* ---------------------------------------------------------------------- *)

C3_WitnessDentroDelLimite ==
    /\ Retornado
    /\ \E ip \in TodasLasIPs :
          /\ Cardinality(IndicesDeIP(ip)) >= 2
          /\ HallazgosDeIP(Informe.ips_sospechosas, ip) = {}

(* ---------------------------------------------------------------------- *)
(* C4                                                                      *)
(* ---------------------------------------------------------------------- *)

\* C4: an IP with f failed requests to sensitive endpoints gets no
\* brute-force finding when f <= max_failed_logins, and exactly one, with
\* intentos_fallidos = f, when f > max_failed_logins.
C4_FuerzaBrutaSobreElLimite ==
    Retornado =>
        \A ip \in TodasLasIPs :
            LET f == Cardinality(FallosDeIP(ip))
                h == HallazgosDeIP(Informe.ataques_fuerza_bruta, ip)
            IN  IF f > config.max_failed_logins
                THEN /\ Cardinality(h) = 1
                     /\ \A n \in h : Informe.ataques_fuerza_bruta[n].intentos_fallidos = f
                ELSE h = {}

\* One IP at limit + 1 with its finding, beside an IP exactly at a limit of
\* 1 with none.
C4_Witness ==
    /\ Retornado
    /\ config.max_failed_logins = 1
    /\ \E ip \in TodasLasIPs :
          /\ Cardinality(FallosDeIP(ip)) = config.max_failed_logins + 1
          /\ HallazgosDeIP(Informe.ataques_fuerza_bruta, ip) # {}
    /\ \E ip \in TodasLasIPs :
          /\ Cardinality(FallosDeIP(ip)) = config.max_failed_logins
          /\ HallazgosDeIP(Informe.ataques_fuerza_bruta, ip) = {}

(* ---------------------------------------------------------------------- *)
(* C5                                                                      *)
(* ---------------------------------------------------------------------- *)

\* C5: in every brute-force finding primera_tentativa is the minimum and
\* ultima_tentativa the maximum of the IP's failed-attempt timestamps,
\* whatever the arrival order of the records.
C5_PrimeraYUltimaSonMinimoYMaximo ==
    Retornado =>
        \A n \in 1..Len(Informe.ataques_fuerza_bruta) :
            LET h == Informe.ataques_fuerza_bruta[n]
                ts == {logs[k].timestamp : k \in FallosDeIP(h.ip)}
            IN  /\ h.primera_tentativa = ToISOString(MinOf(ts))
                /\ h.ultima_tentativa = ToISOString(MaxOf(ts))

(* ---------------------------------------------------------------------- *)
(* C6                                                                      *)
(* ---------------------------------------------------------------------- *)

IndicesDeEndpoint(e) == {n \in 1..Len(logs) : logs[n].endpoint = e}

IPsDeEndpoint(e) == {logs[n].ip : n \in IndicesDeEndpoint(e)}

HallazgosDeEndpoint(hallazgos, e) == {n \in 1..Len(hallazgos) : hallazgos[n].endpoint = e}

\* C6: a sensitive endpoint gets a mass-scan finding exactly when more than
\* 10 distinct IPs accessed it; the finding's ips_unicas is the number of
\* distinct IPs and its total_accesos the number of records to the endpoint,
\* repeated IPs included.  Other endpoints get no finding.
C6_EscaneoMasivoSobreDiezIPs ==
    Retornado =>
        \A e \in TodosLosEndpoints :
            LET h == HallazgosDeEndpoint(Informe.endpoints_bajo_ataque, e)
            IN  IF e \in Range(config.suspicious_endpoints) /\ Cardinality(IPsDeEndpoint(e)) > 10
                THEN /\ Cardinality(h) = 1
                     /\ \A n \in h :
                           /\ Informe.endpoints_bajo_ataque[n].ips_unicas
                                 = Cardinality(IPsDeEndpoint(e))
                           /\ Informe.endpoints_bajo_ataque[n].total_accesos
                                 = Cardinality(IndicesDeEndpoint(e))
                ELSE h = {}

\* A finding for exactly 11 distinct IPs, one of them seen twice, in a run
\* that leaves unflagged an ordinary endpoint.
C6_Witness ==
    /\ Retornado
    /\ \E n \in 1..Len(Informe.endpoints_bajo_ataque) :
          /\ Informe.endpoints_bajo_ataque[n].ips_unicas = 11
          /\ Informe.endpoints_bajo_ataque[n].total_accesos = 12

\* A sensitive endpoint with exactly 10 distinct IPs in 12 records, and an
\* ordinary endpoint with 11 distinct IPs: no finding for either.
C6_WitnessSinHallazgo ==
    /\ Retornado
    /\ Informe.endpoints_bajo_ataque = <<>>
    /\ \/ \E e \in Range(config.suspicious_endpoints) :
             Cardinality(IPsDeEndpoint(e)) = 10 /\ Cardinality(IndicesDeEndpoint(e)) = 12
       \/ Cardinality(IPsDeEndpoint("/api/users")) > 10

(* ---------------------------------------------------------------------- *)
(* C7                                                                      *)
(* ---------------------------------------------------------------------- *)

AgentesDeIP(ip) == {logs[n].user_agent : n \in IndicesDeIP(ip)}

AnomaliasDeIP(hallazgos, ip, tipo) ==
    {n \in HallazgosDeIP(hallazgos, ip) : hallazgos[n].tipo_anomalia = tipo}

\* C7: an IP gets a "Multiples User-Agents" anomaly exactly when it used more
\* than 5 distinct user agents; the finding's cantidad_user_agents is that
\* number and its total_requests_desde_ip the number of the IP's records.
C7_MultiplesUserAgentsSobreCinco ==
    Retornado =>
        \A ip \in TodasLasIPs :
            LET h == AnomaliasDeIP(Informe.anomalias_detectadas, ip, "Multiples User-Agents")
            IN  IF Cardinality(AgentesDeIP(ip)) > 5
                THEN /\ Cardinality(h) = 1
                     /\ \A n \in h :
                           /\ Informe.anomalias_detectadas[n].cantidad_user_agents
                                 = Cardinality(AgentesDeIP(ip))
                           /\ Informe.anomalias_detectadas[n].total_requests_desde_ip
                                 = Cardinality(IndicesDeIP(ip))
                ELSE h = {}

\* A finding for exactly 6 agents in 8 requests, beside an IP without one.
C7_Witness ==
    /\ Retornado
    /\ \E n \in 1..Len(Informe.anomalias_detectadas) :
          /\ Informe.anomalias_detectadas[n].tipo_anomalia = "Multiples User-Agents"
          /\ Informe.anomalias_detectadas[n].cantidad_user_agents = 6
          /\ Informe.anomalias_detectadas[n].total_requests_desde_ip = 8

\* An IP with exactly 5 agents in 7 requests and no finding.
C7_WitnessSinHallazgo ==
    /\ Retornado
    /\ \E ip \in TodasLasIPs :
          /\ Cardinality(AgentesDeIP(ip)) = 5
          /\ Cardinality(IndicesDeIP(ip)) = 7
          /\ AnomaliasDeIP(Informe.anomalias_detectadas, ip, "Multiples User-Agents") = {}

(* ---------------------------------------------------------------------- *)
(* C8                                                                      *)
(* ---------------------------------------------------------------------- *)

\* C8: an IP with exactly one response_time sample gets no "Tiempos de
\* respuesta irregulares" anomaly, whatever the sample's value.
C8_UnaSolaMuestraNuncaEsIrregular ==
    Retornado =>
        \A ip \in TodasLasIPs :
            Cardinality(IndicesDeIP(ip)) = 1
            => AnomaliasDeIP(Informe.anomalias_detectadas, ip,
                             "Tiempos de respuesta irregulares") = {}

(* ---------------------------------------------------------------------- *)
(* C9                                                                      *)
(* ---------------------------------------------------------------------- *)

\* C9: with a time_window that is not positive the detector aggregates no
\* record and returns no report.
C9_VentanaNoPositivaNoRetorna ==
    config.time_window <= 0 =>
        /\ requestsPorIP = <<>>
        /\ ~Retornado

\* C9, its last part: with a time_window that is not positive no report with
\* rate-abuse findings is returned.
C9_SinHallazgosDeVentanaNoPositiva ==
    (config.time_window <= 0 /\ Retornado) => Informe.ips_sospechosas = <<>>

(* ---------------------------------------------------------------------- *)
(* C10                                                                     *)
(* ---------------------------------------------------------------------- *)

SinIPRepetida(hallazgos) ==
    \A a, b \in 1..Len(hallazgos) : hallazgos[a].ip = hallazgos[b].ip => a = b

SinEndpointRepetido(hallazgos) ==
    \A a, b \in 1..Len(hallazgos) : hallazgos[a].endpoint = hallazgos[b].endpoint => a = b

\* C10 as claimed: no IP appears twice in ips_sospechosas, in
\* ataques_fuerza_bruta or in anomalias_detectadas, and no endpoint twice in
\* endpoints_bajo_ataque.
C10_Original ==
    /\ SinIPRepetida(ips_sospechosas)
    /\ SinIPRepetida(ataques_fuerza_bruta)
    /\ SinEndpointRepetido(endpoints_bajo_ataque)
    /\ SinIPRepetida(anomalias_detectadas)

\* C10 as amended: no IP appears twice in ips_sospechosas or in
\* ataques_fuerza_bruta, no endpoint twice in endpoints_bajo_ataque, and no
\* IP twice with the same tipo_anomalia in anomalias_detectadas.
C10_UnHallazgoPorClaveYDetector ==
    /\ SinIPRepetida(ips_sospechosas)
    /\ SinIPRepetida(ataques_fuerza_bruta)
    /\ SinEndpointRepetido(endpoints_bajo_ataque)
    /\ \A a, b \in 1..Len(anomalias_detectadas) :
          (/\ anomalias_detectadas[a].ip = anomalias_detectadas[b].ip
           /\ anomalias_detectadas[a].tipo_anomalia = anomalias_detectadas[b].tipo_anomalia)
          => a = b

\* A report in which one IP has both anomalies, each once.
C10_Witness ==
    /\ Retornado
    /\ \E a, b \in 1..Len(Informe.anomalias_detectadas) :
          /\ a # b
          /\ Informe.anomalias_detectadas[a].ip = Informe.anomalias_detectadas[b].ip

(* ---------------------------------------------------------------------- *)
(* LRUCache: what the callers have done, read from the history             *)
(* ---------------------------------------------------------------------- *)

\* The keys the Map holds.
ClavesDelMap == {e.clave : e \in cache}

\* put(k, v) is called with a key the cache does not hold, on a full cache.
PutEnCacheLleno(k, v) ==
    /\ ~CacheHas(cache, k)
    /\ size = capacity
    /\ put(k, v)

(* ---------------------------------------------------------------------- *)
(* C11                                                                     *)
(* ---------------------------------------------------------------------- *)

\* C11: keys() lists the keys of the cache in the order of their last
\* successful get or put, least recent first; and a put of a new key on a
\* full cache removes the first key of that order and no other, and places
\* the new key last.
C11_KeysEnOrdenDeUsoYDesalojoDelPrimero ==
    /\ [](keys = ordenUso)
    /\ [][\A k \in Claves, v \in Valores :
            PutEnCacheLleno(k, v) =>
                /\ keys' = Tail(keys) \o <<k>>
                /\ ClavesDelMap' = (ClavesDelMap \ {keys[1]}) \cup {k}]_vars

\* The first test of the source on a cache of capacity 3: put a, put b,
\* put c, get a, put d has evicted b and left c, a, d.
C11_Witness ==
    /\ capacity = 3
    /\ keys = <<"c", "a", "d">>
    /\ ordenUso = keys
    /\ ~CacheHas(cache, "b")
    /\ retorno = <<>>

(* ---------------------------------------------------------------------- *)
(* C12                                                                     *)
(* ---------------------------------------------------------------------- *)

\* The last n elements of the sequence s.
Ultimos(s, n) == SubSeq(s, Len(s) - n + 1, Len(s))

\* C12: a cache built with a capacity c >= 1 never holds more than c keys,
\* keys() never repeats a key, the keys of the linked list are the keys of
\* the Map, and after puts of more than c distinct keys and no other call
\* the cache holds exactly the last c of them, in the order of insertion.
C12_TamanoAcotadoSinDuplicadosYUltimasClaves ==
    /\ capacity >= 1
    /\ size <= capacity
    /\ \A i, j \in 1..Len(keys) : i # j => keys[i] # keys[j]
    /\ Range(keys) = ClavesDelMap
    /\ (soloInserciones /\ Len(insertadas) > capacity)
           => keys = Ultimos(insertadas, capacity)

\* A cache of capacity 3 that has seen four puts of distinct keys and
\* nothing else holds the last three.
C12_Witness ==
    /\ capacity = 3
    /\ soloInserciones
    /\ Len(insertadas) = 4
    /\ keys = Tail(insertadas)
    /\ size = 3

(* ---------------------------------------------------------------------- *)
(* C13                                                                     *)
(* ---------------------------------------------------------------------- *)

\* The pairs <<key, value>> the cache stores, read from the nodes the Map
\* refers to.
ValoresGuardados == {<<nodos[e.valor].key, nodos[e.valor].value>> : e \in cache}

\* What get(k) has to return by the history of the calls: the value of the
\* last put of k when k has not been evicted since, and -1 otherwise.
RetornoEsperado(k) ==
    IF \E par \in vigente : par[1] = k
    THEN <<(CHOOSE par \in vigente : par[1] = k)[2]>>
    ELSE <<-1>>

\* C13: get(key) returns the value of the most recent put of the key when
\* the key has not been evicted since that put, and -1 otherwise; a get
\* that misses leaves the keys, their order and their values as they were;
\* a put on a key the cache holds replaces its value, evicts no key and
\* leaves size() as it was.
C13_GetRetornaElUltimoPutYPutReemplaza ==
    [][/\ \A k \in Claves :
            get(k) =>
                /\ retorno' = RetornoEsperado(k)
                /\ RetornoEsperado(k) = <<-1>> =>
                       /\ keys' = keys
                       /\ ValoresGuardados' = ValoresGuardados
                       /\ size' = size
       /\ \A k \in Claves, v \in Valores :
            (CacheHas(cache, k) /\ put(k, v)) =>
                /\ ClavesDelMap' = ClavesDelMap
                /\ size' = size
                /\ ValoresGuardados' =
                       {par \in ValoresGuardados : par[1] # k} \cup {<<k, v>>}]_vars

\* A cache of capacity 2 whose key a was put last with the value 2, and
\* whose get has just returned that value and made a the most recent key.
C13_Witness ==
    /\ capacity = 2
    /\ retorno = <<2>>
    /\ keys = <<"b", "a">>
    /\ vigente = {<<"a", 2>>, <<"b", 1>>}
    /\ ValoresGuardados = vigente

(* ---------------------------------------------------------------------- *)
(* C14                                                                     *)
(* ---------------------------------------------------------------------- *)

\* The permutations of 1..n.
Permutaciones(n) ==
    {p \in [1..n -> 1..n] : \A i, j \in 1..n : i # j => p[i] # p[j]}

\* The batch with its records in the order p.
Reordenar(lote, p) == [i \in 1..Len(lote) |-> lote[p[i]]]

\* The exchange of the positions i and i + 1, and the reversal, of 1..n.
Intercambio(n, i) ==
    [k \in 1..n |-> IF k = i THEN i + 1 ELSE IF k = i + 1 THEN i ELSE k]

Reverso(n) == [k \in 1..n |-> n + 1 - k]

\* The reorderings of a batch that are compared: every permutation of a
\* short batch; the exchanges of two neighbours and the reversal of a long
\* one.
Reordenamientos(lote) ==
    IF Len(lote) <= MaxLogs
    THEN {Reordenar(lote, p) : p \in Permutaciones(Len(lote))}
    ELSE {Reordenar(lote, Intercambio(Len(lote), i)) : i \in 1..(Len(lote) - 1)}
         \cup {Reordenar(lote, Reverso(Len(lote)))}

\* What C14 speaks of in a report: the flagged IPs, the brute-force IPs, the
\* endpoints under attack, the pairs (IP, kind of anomaly) and the total.
Resumen(informe) ==
    [ips_sospechosas |-> {h.ip : h \in Range(informe.ips_sospechosas)},
     ataques_fuerza_bruta |-> {h.ip : h \in Range(informe.ataques_fuerza_bruta)},
     endpoints_bajo_ataque |-> {h.endpoint : h \in Range(informe.endpoints_bajo_ataque)},
     anomalias_detectadas |->
         {<<h.ip, h.tipo_anomalia>> : h \in Range(informe.anomalias_detectadas)},
     total_eventos_sospechosos |-> informe.total_eventos_sospechosos]

\* C14: under one policy, the report of a batch and the report of the same
\* records in another order name the same IPs in ips_sospechosas, the same
\* IPs in ataques_fuerza_bruta, the same endpoints in endpoints_bajo_ataque
\* and the same pairs (IP, kind of anomaly) in anomalias_detectadas, and
\* have the same total_eventos_sospechosos.
C14_ReordenarNoCambiaElInforme ==
    Retornado =>
        \A otro \in Reordenamientos(logs) :
            Resumen(Detectar(otro, config)) = Resumen(Informe)

====
